---- MODULE Spec2Model ----
(***************************************************************************)
(* A model of the notebook Solvers.ipynb: four problems posed as           *)
(* constraint sets for the Z3 solver (uniform acceleration, the            *)
(* SEND+MORE=MONEY cryptarithm, a Sudoku, a knapsack), and the code that   *)
(* reads the returned models back.                                         *)
(*                                                                         *)
(* The solver itself is a library outside the notebook.  It is modelled by *)
(* what it answers: check() is a nondeterministic search whose terminal    *)
(* states are exactly the assignments that satisfy every asserted          *)
(* constraint; the order in which the search assigns variables is the      *)
(* solver's own business and is fixed here only to keep the search small.  *)
(***************************************************************************)
EXTENDS Integers, Sequences, FiniteSets, TLC

VARIABLES
    pc,         \* the position of the running cell
    kbind,      \* kinematics: the equalities passed to solve() beside the rules
    kmodel,     \* kinematics: the candidate model of u, v, s, a, t
    asserted,   \* the Solver's assertions, in the order of the s.add() calls
    assign,     \* the Solver's assignment (partial during check(), the model after)
    verdict,    \* what s.check() returned
    camount,    \* cryptarithm: the value of amount(s.model(), M, O, N, E, Y)
    i,          \* Sudoku: the index of enumerate(start_cells)
    vs,         \* display: the counter vs = count()
    dpos,       \* display: the position in puzzle of the character being joined
    dout,       \* display: the characters joined so far
    ksel,       \* knapsack: the candidate assignment of item0..item7
    kres,       \* knapsack: (check(), model(), objective.value())
    ns,         \* notebook: the global namespace, name -> the cell that bound it
    ran,        \* notebook: the cells executed so far without an error
    last,       \* notebook: the cell executed last
    err,        \* notebook: the name of the NameError of that cell, or "ok"
    foreign     \* notebook: the reads so far of a name another problem bound

vars == <<pc, kbind, kmodel, asserted, assign, verdict, camount, i, vs, dpos,
          dout, ksel, kres, ns, ran, last, err, foreign>>

kinVars  == <<kbind, kmodel>>
solVars  == <<asserted, assign, verdict>>
sudVars  == <<i, vs, dpos, dout>>
knapVars == <<ksel, kres>>
nbVars   == <<ns, ran, last, err, foreign>>

Empty == [x \in {} |-> 0]

\* The variables of the problems a specification does not run.
IdleKin   == kbind = Empty /\ kmodel = Empty
IdleSol   == asserted = <<>> /\ assign = Empty /\ verdict = "none"
IdleCry   == camount = 0
IdleSud   == i = 0 /\ vs = 0 /\ dpos = 1 /\ dout = <<>>
IdleKnap  == ksel = Empty /\ kres = [verdict |-> "none", model |-> Empty, value |-> 0]
IdleNb    == ns = Empty /\ ran = {} /\ last = "none" /\ err = "ok" /\ foreign = {}

(***************************************************************************)
(* Knapsack                                                                *)
(***************************************************************************)
values   == <<360, 83, 59, 130, 431, 67, 230, 52>>
weights  == <<7, 0, 30, 22, 80, 94, 11, 81>>
capacity == 80

\* selections = [Bool(f'item{n}') for n in range(len(values))]
selections == 1..Len(values)

AllSelections == [selections -> BOOLEAN]

\* A Bool times a number, s * w, is If(s, w, 0).
ContributionAlways(b, w) == w
Contribution(b, w) == IF b THEN w ELSE 0

RECURSIVE SumZip(_, _, _)
\* sum(s * w for s, w in zip(selections, ws)), over the first n items
SumZip(sel, ws, n) ==
    IF n = 0 THEN 0 ELSE SumZip(sel, ws, n - 1) + Contribution(sel[n], ws[n])

TotalWeight(sel) == SumZip(sel, weights, Len(weights))
TotalValue(sel)  == SumZip(sel, values, Len(values))

\* knapsack.add(sum(...) <= capacity)
Feasible(sel) == TotalWeight(sel) <= capacity

\* knapsack.maximize(sum(...)): no feasible selection is worth more
Optimal(sel) ==
    /\ Feasible(sel)
    /\ \A other \in AllSelections :
          Feasible(other) => TotalValue(other) <= TotalValue(sel)

InitKnapsack ==
    /\ pc = "knap_posed"
    /\ ksel \in AllSelections
    /\ kres = [verdict |-> "none", model |-> Empty, value |-> 0]
    /\ IdleKin /\ IdleSol /\ IdleCry /\ IdleSud /\ IdleNb

\* knapsack.check(), knapsack.model(), objective.value(): the candidate is the
\* optimizer's answer when it is feasible and optimal
KnapsackAnswer ==
    /\ pc = "knap_posed"
    /\ Optimal(ksel)
    /\ kres' = [verdict |-> "sat", model |-> ksel, value |-> TotalValue(ksel)]
    /\ pc' = "knap_done"
    /\ UNCHANGED <<kinVars, solVars, camount, sudVars, ksel, nbVars>>

\* ... and is passed over by the optimizer when it is not
KnapsackDiscard ==
    /\ pc = "knap_posed"
    /\ ~Optimal(ksel)
    /\ pc' = "knap_discarded"
    /\ UNCHANGED <<kinVars, solVars, camount, sudVars, knapVars, nbVars>>

NextKnapsack == KnapsackAnswer \/ KnapsackDiscard

SpecKnapsack == InitKnapsack /\ [][NextKnapsack]_vars

\* C1: over all 2^8 selections, the largest total value of a selection whose
\* total weight is at most the capacity 80 is exactly 862: a selection of weight
\* <= 80 and value 862 exists, none of weight <= 80 is worth more, and the
\* optimizer reports 862 with a selection of exactly that value.
C1_KnapsackOptimum ==
    /\ Feasible(ksel) => TotalValue(ksel) <= 862
    /\ \E sel \in AllSelections : Feasible(sel) /\ TotalValue(sel) = 862
    /\ pc = "knap_done" =>
          /\ kres.verdict = "sat"
          /\ kres.value = 862
          /\ TotalWeight(kres.model) <= 80
          /\ TotalValue(kres.model) = kres.value

C1_Witness ==
    /\ pc = "knap_done"
    /\ kres.value = 862
    /\ kres.model = <<TRUE, TRUE, TRUE, TRUE, FALSE, FALSE, TRUE, FALSE>>

(***************************************************************************)
(* The Solver: assertions and the search of check()                        *)
(***************************************************************************)
\* The values the search tries for a variable: the range the notebook asks for
\* and ValSlack values beyond each end of it.
ValSlack == 1

\* Distinct(*xs)
Distinct(xs) == [kind |-> "distinct", vars |-> xs, lo |-> 0, hi |-> 0]

\* And(lo <= var, var < hi)
Range(lo, hi, var) == [kind |-> "range", vars |-> <<var>>, lo |-> lo, hi |-> hi]

\* def in_range(lo, hi, *vars): return [And(lo <= var, var < hi) for var in vars]
in_range_inclusive(lo, hi, xs) == [n \in 1..Len(xs) |-> Range(lo, hi + 1, xs[n])]
in_range(lo, hi, xs) == [n \in 1..Len(xs) |-> Range(lo, hi, xs[n])]

\* var == d and var != d
Eq(var, d)  == [kind |-> "eq", vars |-> <<var>>, lo |-> d, hi |-> d]
Neq(var, d) == [kind |-> "neq", vars |-> <<var>>, lo |-> d, hi |-> d]

\* the one linear equation of the cryptarithm
Equation(xs) == [kind |-> "equation", vars |-> xs, lo |-> 0, hi |-> 0]

Range1(f) == {f[x] : x \in DOMAIN f}

Mentions(c, x) == x \in Range1(c.vars)

\* s.add(c) and s.add([c1, c2, ...])
Add(as, c)     == Append(as, c)
AddAll(as, cs) == as \o cs

\* s.model() raises Z3Exception("model is not available") unless the last
\* check() found one; the cell then stops at that line.  next is where the
\* cell goes on with the model.
AfterModelReadGuarded(v, next, failed) == IF v = "sat" THEN next ELSE "skipped"
AfterModelRead(v, next, failed) == IF v = "sat" THEN next ELSE failed

(***************************************************************************)
(* Cryptarithm                                                             *)
(***************************************************************************)
\* S, E, N, D, M, O, R, Y = Ints('S E N D M O R Y')
Letters == <<"S", "E", "N", "D", "M", "O", "R", "Y">>
LetterSet == Range1(Letters)

\* 1000*S + 100*E + 10*N + D + 1000*M + 100*O + 10*R + E
Lhs(d) == 1000 * d["S"] + 100 * d["E"] + 10 * d["N"] + d["D"]
          + 1000 * d["M"] + 100 * d["O"] + 10 * d["R"] + d["E"]

\* 10000*M + 1000*O + 100*N + 10*E + Y
Rhs(d) == 10000 * d["M"] + 1000 * d["O"] + 100 * d["N"] + 10 * d["E"] + d["Y"]

Abs(n) == IF n < 0 THEN 0 - n ELSE n

RECURSIVE Gcd(_, _)
Gcd(a, b) == IF b = 0 THEN a ELSE Gcd(b, a % b)

RECURSIVE GcdOf(_)
GcdOf(S) == IF S = {} THEN 0
            ELSE LET x == CHOOSE y \in S : TRUE IN Gcd(x, GcdOf(S \ {x}))

\* The coefficient of letter x in Lhs - Rhs (both are linear in the digits).
Coef(x) == LET e == [y \in LetterSet |-> IF y = x THEN 1 ELSE 0] IN Lhs(e) - Rhs(e)

\* What the equation says of a partial assignment d: with every letter assigned,
\* Lhs = Rhs; before that, the assigned part of Lhs - Rhs must be a multiple of
\* the gcd of the coefficients still open (otherwise no completion satisfies it).
EquationHolds(d) ==
    LET open == LetterSet \ DOMAIN d
        z    == [y \in LetterSet |-> IF y \in DOMAIN d THEN d[y] ELSE 0]
        g    == GcdOf({Abs(Coef(y)) : y \in open})
    IN  IF open = {} THEN Lhs(d) = Rhs(d)
        ELSE g = 0 \/ Abs(Lhs(z) - Rhs(z)) % g = 0

\* Whether assertion c, which held of the assignment d before x got its value,
\* can still be satisfied now that x has one.
Holds(c, d, x) ==
    CASE c.kind = "distinct" ->
           \A m, n \in DOMAIN c.vars :
              (m # n /\ c.vars[m] = x /\ c.vars[n] \in DOMAIN d)
                 => d[c.vars[n]] # d[x]
      [] c.kind = "range"    -> c.lo <= d[x] /\ d[x] < c.hi
      [] c.kind = "eq"       -> d[x] = c.lo
      [] c.kind = "neq"      -> d[x] # c.lo
      [] c.kind = "equation" -> EquationHolds(d)

\* The assertions that mention x: no other is affected when x gets its value.
Relevant(as, x) == {n \in DOMAIN as : Mentions(as[n], x)}

\* Assigning x keeps every assertion of rel satisfiable.
HoldsAfter(as, rel, d, x) == \A n \in rel : Holds(as[n], d, x)

\* The order in which the search assigns the letters: units first.
CrySearchOrder == <<"D", "E", "Y", "N", "R", "O", "S", "M">>
CryCandidates == (0 - ValSlack)..(9 + ValSlack)

\* s.add(...) four times, lines 134-139
CryLeadingFromZero(as) == AddAll(as, in_range(0, 10, <<"S", "M">>))
CryLeading(as) == AddAll(as, in_range(1, 10, <<"S", "M">>))

CryAssertions ==
    CryLeading(
        AddAll(
            Add(Add(<<>>, Equation(Letters)), Distinct(Letters)),
            in_range(0, 10, Letters)))

RECURSIVE amountLoop(_, _, _)
amountLoop(model, digits, n) ==
    IF n = 0 THEN 0
    ELSE amountLoop(model, digits, n - 1) * 10 + model[digits[n]]

\* def amount(model, *digits)
amount(model, digits) == amountLoop(model, digits, Len(digits))

InitCrypt ==
    /\ pc = "cry_start"
    /\ asserted = <<>> /\ assign = Empty /\ verdict = "none"
    /\ camount = 0
    /\ IdleKin /\ IdleSud /\ IdleKnap /\ IdleNb

\* s = Solver() and the four s.add() calls
CryEncode ==
    /\ pc = "cry_start"
    /\ asserted' = CryAssertions
    /\ pc' = "cry_check"
    /\ UNCHANGED <<kinVars, assign, verdict, camount, sudVars, knapVars, nbVars>>

\* s.check(): one step of the search, the next letter getting a value
CrySearch ==
    /\ pc = "cry_check"
    /\ Len(asserted) > 0
    /\ verdict = "none"
    /\ DOMAIN assign # LetterSet
    /\ LET n == CHOOSE m \in 1..Len(CrySearchOrder) :
                   /\ CrySearchOrder[m] \notin DOMAIN assign
                   /\ \A k \in 1..(m - 1) : CrySearchOrder[k] \in DOMAIN assign
           x == CrySearchOrder[n]
           rel == Relevant(asserted, x)
       IN  \E v \in CryCandidates :
              /\ assign' = (x :> v) @@ assign
              /\ HoldsAfter(asserted, rel, assign', x)
    /\ UNCHANGED <<pc, kinVars, asserted, verdict, camount, sudVars, knapVars, nbVars>>

\* s.check() returns sat: every letter has a value and every assertion holds
CryCheckSat ==
    /\ pc = "cry_check"
    /\ verdict = "none"
    /\ DOMAIN assign = LetterSet
    /\ verdict' = "sat"
    /\ pc' = "cry_model"
    /\ UNCHANGED <<kinVars, asserted, assign, camount, sudVars, knapVars, nbVars>>

\* s.model(), the argument of amount(...), whatever check() returned
CryModelRead ==
    /\ pc = "cry_model"
    /\ pc' = AfterModelRead(verdict, "cry_amount", "cry_error")
    /\ UNCHANGED <<kinVars, solVars, camount, sudVars, knapVars, nbVars>>

\* amount(model, M, O, N, E, Y)
CryAmount ==
    /\ pc = "cry_amount"
    /\ camount' = amount(assign, <<"M", "O", "N", "E", "Y">>)
    /\ pc' = "cry_done"
    /\ UNCHANGED <<kinVars, solVars, sudVars, knapVars, nbVars>>

NextCrypt == CryEncode \/ CrySearch \/ CryCheckSat \/ CryModelRead \/ CryAmount

SpecCrypt == InitCrypt /\ [][NextCrypt]_vars

PairwiseDistinct(d) == \A x, y \in DOMAIN d : x # y => d[x] # d[y]

\* C2: every assignment of S,E,N,D,M,O,R,Y that satisfies the asserted equation,
\* Distinct, in_range(0,10) and in_range(1,10) on S and M has pairwise distinct
\* digits in 0..9 with S and M nonzero, satisfies SEND + MORE = MONEY, and gives
\* amount(model, M,O,N,E,Y) = 10652.
C2_Cryptarithm ==
    /\ pc \in {"cry_model", "cry_amount", "cry_done"} =>
          /\ DOMAIN assign = LetterSet
          /\ PairwiseDistinct(assign)
          /\ \A x \in LetterSet : assign[x] \in 0..9
          /\ assign["S"] # 0 /\ assign["M"] # 0
          /\ Lhs(assign) = Rhs(assign)
          /\ amount(assign, <<"M", "O", "N", "E", "Y">>) = 10652
    /\ pc = "cry_done" => camount = 10652

\* the assignment 9567 + 1085 = 10652 is found and its amount returned
C2_Witness ==
    /\ pc = "cry_done"
    /\ camount = 10652
    /\ amount(assign, <<"S", "E", "N", "D">>) = 9567
    /\ amount(assign, <<"M", "O", "R", "E">>) = 1085

(***************************************************************************)
(* Sudoku                                                                  *)
(***************************************************************************)
\* puzzle: the template string, one character per element, one template line
\* per line
Puzzle == <<
    " ", " ", " ", "|", " ", "9", "4", "|", " ", "3", " ", "\n",
    " ", " ", " ", "|", "5", "1", " ", "|", " ", " ", "7", "\n",
    " ", "8", "9", "|", " ", " ", " ", "|", " ", "4", " ", "\n",
    "-", "-", "-", "+", "-", "-", "-", "+", "-", "-", "-", "\n",
    " ", " ", " ", "|", " ", " ", " ", "|", "2", " ", "8", "\n",
    " ", "6", " ", "|", "2", " ", "1", "|", " ", "5", " ", "\n",
    "1", " ", "2", "|", " ", " ", " ", "|", " ", " ", " ", "\n",
    "-", "-", "-", "+", "-", "-", "-", "+", "-", "-", "-", "\n",
    " ", "7", " ", "|", " ", " ", " ", "|", "5", "2", " ", "\n",
    "9", " ", " ", "|", " ", "6", "5", "|", " ", " ", " ", "\n",
    " ", "4", " ", "|", "9", "7", " ", "|", " ", " ", " ", "\n">>

Digits == {"1", "2", "3", "4", "5", "6", "7", "8", "9"}

\* c in '123456789'
IsDigit(c) == c \in Digits

\* c in ' 123456789', in start_cells
IsStartCell(c) == c \in ({" "} \cup Digits)

\* c in ' 123456789', in display
IsPlaceholderDigitsOnly(c) == c \in Digits
IsPlaceholder(c) == c \in ({" "} \cup Digits)

DigitChars == <<"0", "1", "2", "3", "4", "5", "6", "7", "8", "9">>

\* int(c) for a digit character
IntOf(c) == (CHOOSE n \in 1..10 : DigitChars[n] = c) - 1

RECURSIVE StrNat(_)
StrNat(n) == IF n < 10 THEN <<DigitChars[n + 1]>>
             ELSE StrNat(n \div 10) \o <<DigitChars[(n % 10) + 1]>>

\* str(n), as the sequence of its characters
StrOf(n) == IF n < 0 THEN <<"-">> \o StrNat(0 - n) ELSE StrNat(n)

\* sq3x3 = list(product(range(3), repeat=2))
sq3x3 == [n \in 1..9 |-> <<(n - 1) \div 3, (n - 1) % 3>>]

\* cells = [Int(str(s)) for s in range(81)]: the variable named str(k) is k
cells == [n \in 1..81 |-> n - 1]

\* xs[k], xs[from:to] and xs[start::step] of a Python list
PyAt(xs, k) == xs[k + 1]
PySlice(xs, from, to) ==
    SubSeq(xs, from + 1, IF to < Len(xs) THEN to ELSE Len(xs))
PyStride(xs, start, step) ==
    [n \in 1..((Len(xs) - start + step - 1) \div step) |->
        xs[start + (n - 1) * step + 1]]

\* def cell(R, C, r, c): return cells[9*(3*R+r) + 3*C + c]
cellNarrow(R, C, r, c) == PyAt(cells, 9 * (3 * R + r) + C + c)
cell(R, C, r, c) == PyAt(cells, 9 * (3 * R + r) + 3 * C + c)

\* rows = [Distinct(cells[r:r+9]) for r in range(0, 81, 9)]
rows == [n \in 1..9 |-> Distinct(PySlice(cells, 9 * (n - 1), 9 * (n - 1) + 9))]

\* cols = [Distinct(cells[c::9]) for c in range(9)]
cols == [n \in 1..9 |-> Distinct(PyStride(cells, n - 1, 9))]

\* blocks = [Distinct([cell(*p, *d) for d in sq3x3]) for p in sq3x3]
blocks ==
    [n \in 1..9 |->
        Distinct([m \in 1..9 |->
            cell(sq3x3[n][1], sq3x3[n][2], sq3x3[m][1], sq3x3[m][2])])]

sudoku_rules == rows \o cols \o blocks

\* start_cells = (c for c in puzzle if c in ' 123456789')
start_cells == SelectSeq(Puzzle, IsStartCell)

CellSet == Range1(cells)
SudCandidates == (1 - ValSlack)..(9 + ValSlack)

InitSudoku ==
    /\ pc = "sud_start"
    /\ asserted = <<>> /\ assign = Empty /\ verdict = "none"
    /\ i = 0 /\ vs = 0 /\ dpos = 1 /\ dout = <<>>
    /\ IdleKin /\ IdleCry /\ IdleKnap /\ IdleNb

\* s = Solver(); s.add(sudoku_rules); s.add(in_range(1, 10, *cells))
SudEncodeRules ==
    /\ pc = "sud_start"
    /\ asserted' = AddAll(AddAll(<<>>, sudoku_rules), in_range(1, 10, cells))
    /\ i' = 0
    /\ pc' = "sud_clues"
    /\ UNCHANGED <<kinVars, assign, verdict, camount, vs, dpos, dout, knapVars, nbVars>>

\* for i, c in enumerate(start_cells): if c in '123456789': s.add(cells[i]==int(c))
SudClueStep ==
    /\ pc = "sud_clues"
    /\ i < Len(start_cells)
    /\ LET c == PyAt(start_cells, i)
       IN  asserted' = IF IsDigit(c) THEN Add(asserted, Eq(PyAt(cells, i), IntOf(c)))
                       ELSE asserted
    /\ i' = i + 1
    /\ UNCHANGED <<pc, kinVars, assign, verdict, camount, vs, dpos, dout, knapVars, nbVars>>

\* s.add(cells[0] != 5), after the loop
SudAddNeq ==
    /\ pc = "sud_clues"
    /\ i = Len(start_cells)
    /\ asserted' = Add(asserted, Neq(PyAt(cells, 0), 5))
    /\ pc' = "sud_check"
    /\ UNCHANGED <<kinVars, assign, verdict, camount, sudVars, knapVars, nbVars>>

\* The cells an equality fixes.
UnitCells(as) == {as[n].vars[1] : n \in {m \in DOMAIN as : as[m].kind = "eq"}}

Min(S) == CHOOSE x \in S : \A y \in S : x <= y

\* The cell the search assigns next: the fixed ones first, then in list order.
SudNextCell(as, d) ==
    LET units == UnitCells(as) \ DOMAIN d
    IN  IF units # {} THEN Min(units) ELSE Min(CellSet \ DOMAIN d)

\* s.check(): one step of the search, the next cell getting a value
SudSearch ==
    /\ pc = "sud_check"
    /\ verdict = "none"
    /\ DOMAIN assign # CellSet
    /\ LET x == SudNextCell(asserted, assign)
           rel == Relevant(asserted, x)
       IN  \E v \in SudCandidates :
              /\ assign' = (x :> v) @@ assign
              /\ HoldsAfter(asserted, rel, assign', x)
    /\ UNCHANGED <<pc, kinVars, asserted, verdict, camount, sudVars, knapVars, nbVars>>

\* s.check() returns sat: every cell has a value and every assertion holds
SudCheckSat ==
    /\ pc = "sud_check"
    /\ verdict = "none"
    /\ DOMAIN assign = CellSet
    /\ verdict' = "sat"
    /\ pc' = "sud_model"
    /\ UNCHANGED <<kinVars, asserted, assign, camount, sudVars, knapVars, nbVars>>

\* s.model(), the argument of display(...), whatever check() returned;
\* display starts with vs = count()
SudModelRead ==
    /\ pc = "sud_model"
    /\ pc' = AfterModelRead(verdict, "sud_display", "sud_error")
    /\ vs' = 0 /\ dpos' = 1 /\ dout' = <<>>
    /\ UNCHANGED <<kinVars, solVars, camount, i, knapVars, nbVars>>

\* str(model[cells[next(vs)]]) if c in ' 123456789' else c, for one c in puzzle
DisplayStep ==
    /\ pc = "sud_display"
    /\ dpos <= Len(Puzzle)
    /\ LET c == Puzzle[dpos]
       IN  IF IsPlaceholder(c)
           THEN /\ dout' = Append(dout, StrOf(assign[PyAt(cells, vs)]))
                /\ vs' = vs + 1
           ELSE /\ dout' = Append(dout, <<c>>)
                /\ vs' = vs
    /\ dpos' = dpos + 1
    /\ UNCHANGED <<pc, kinVars, solVars, camount, i, knapVars, nbVars>>

\* ''.join(...) is complete; print(...)
DisplayDone ==
    /\ pc = "sud_display"
    /\ dpos > Len(Puzzle)
    /\ pc' = "sud_done"
    /\ UNCHANGED <<kinVars, solVars, camount, sudVars, knapVars, nbVars>>

NextSudoku ==
    \/ SudEncodeRules \/ SudClueStep \/ SudAddNeq
    \/ SudSearch \/ SudCheckSat \/ SudModelRead \/ DisplayStep \/ DisplayDone

SpecSudoku == InitSudoku /\ [][NextSudoku]_vars

(***************************************************************************)
(* Properties of the Sudoku cell                                           *)
(***************************************************************************)
Slots == {" ", "1", "2", "3", "4", "5", "6", "7", "8", "9"}

\* How many placeholder characters the template holds before position p.
SlotsBefore(p) == Cardinality({q \in 1..(p - 1) : Puzzle[q] \in Slots})

\* The template line of position p, and the lines that hold placeholders.
LineOf(p)   == Cardinality({q \in 1..(p - 1) : Puzzle[q] = "\n"})
DataLine(l) == \E q \in 1..Len(Puzzle) : LineOf(q) = l /\ Puzzle[q] \in Slots
\* The data row and the placeholder column of position p.
DataRowOf(p) == Cardinality({l \in 0..(LineOf(p) - 1) : DataLine(l)})
SlotColOf(p) ==
    Cardinality({q \in 1..(p - 1) : LineOf(q) = LineOf(p) /\ Puzzle[q] \in Slots})

RowOf(k)   == k \div 9
ColOf(k)   == k % 9
BlockOf(k) == <<(k \div 9) \div 3, (k % 9) \div 3>>

\* The 27 units of the board: its rows, its columns and its 3x3 blocks.
Units ==
    {{9 * r + c : c \in 0..8} : r \in 0..8}
    \cup {{9 * r + c : r \in 0..8} : c \in 0..8}
    \cup {{9 * (3 * R + r) + 3 * C + c : r, c \in 0..2} : R, C \in 0..2}

\* C3: every assignment that satisfies the asserted constraint set (the rows,
\* cols and blocks Distinct constraints, in_range(1,10) on every cell and the
\* clue equalities) has each row, each column and each 3x3 block equal to a
\* permutation of 1..9 and holds, wherever the template holds a digit, that
\* digit.  While check() is still searching, the cells it has assigned already
\* obey this: values in 1..9, no value twice in a row, column or block, and the
\* template's digit in a pre-filled cell.
C3_SudokuSolution ==
    /\ pc \in {"sud_check", "sud_model", "sud_display", "sud_done"} =>
          /\ \A k \in DOMAIN assign : assign[k] \in 1..9
          /\ \A U \in Units :
                LET A == U \cap DOMAIN assign
                IN  Cardinality({assign[k] : k \in A}) = Cardinality(A)
    /\ (pc \in {"sud_model", "sud_display", "sud_done"} /\ verdict = "sat") =>
          /\ DOMAIN assign = 0..80
          /\ \A r \in 0..8 : {assign[9 * r + c] : c \in 0..8} = 1..9
          /\ \A c \in 0..8 : {assign[9 * r + c] : r \in 0..8} = 1..9
          /\ \A R, C \in 0..2 :
                {assign[9 * (3 * R + r) + 3 * C + c] : r, c \in 0..2} = 1..9
          /\ \A p \in 1..Len(Puzzle) :
                Puzzle[p] \in Digits => <<Puzzle[p]>> = StrOf(assign[SlotsBefore(p)])

\* the completed grid of the notebook's output, 715|894|632 ... 541|972|386
C3_Witness ==
    /\ pc = "sud_done"
    /\ verdict = "sat"
    /\ <<assign[0], assign[1], assign[2]>> = <<7, 1, 5>>
    /\ <<assign[78], assign[79], assign[80]>> = <<3, 8, 6>>

\* The assertions added after the generic rules and the domain constraint.
InstanceRules == SubSeq(asserted, Len(sudoku_rules) + Len(cells) + 1, Len(asserted))

\* C7: every instance constraint the encoder adds beyond the 27 Distinct
\* constraints and the 1..9 domain constraint is an equality fixing a cell that
\* is pre-filled in the template to the digit given there, exactly one per
\* pre-filled character, and none is placed on a cell that is blank in the
\* template.
C7_InstanceRulesAreClues ==
    pc \in {"sud_check", "sud_model", "sud_display", "sud_done"} =>
       /\ \A n \in DOMAIN InstanceRules :
             LET c == InstanceRules[n]
             IN  /\ c.kind = "eq"
                 /\ \E p \in 1..Len(Puzzle) :
                       /\ Puzzle[p] \in Digits
                       /\ c.vars = <<SlotsBefore(p)>>
                       /\ StrOf(c.lo) = <<Puzzle[p]>>
       /\ \A p \in 1..Len(Puzzle) :
             Puzzle[p] \in Digits =>
                Cardinality({n \in DOMAIN InstanceRules :
                                InstanceRules[n].vars = <<SlotsBefore(p)>>}) = 1
       /\ \A p \in 1..Len(Puzzle) :
             Puzzle[p] = " " =>
                \A n \in DOMAIN InstanceRules : InstanceRules[n].vars # <<SlotsBefore(p)>>

\* C8: display walks the template one character at a time; the counter starts
\* at 0 and is, at every character, the number of placeholder characters walked
\* so far; the k-th placeholder is replaced by the value of cells[k], which is
\* the cell of its data row and placeholder column, 9*row + col; every other
\* character is copied unchanged at its position; the counter is at most 80 when
\* it indexes cells and is 81 after the last character.
C8_DisplayWalk ==
    pc \in {"sud_display", "sud_done"} =>
       /\ vs = SlotsBefore(dpos)
       /\ Len(dout) = dpos - 1
       /\ dpos = 1 => vs = 0
       /\ \A p \in 1..(dpos - 1) :
             IF Puzzle[p] \in Slots
             THEN /\ dout[p] = StrOf(assign[SlotsBefore(p)])
                  /\ SlotsBefore(p) = 9 * DataRowOf(p) + SlotColOf(p)
                  /\ Len(dout[p]) = 1
             ELSE dout[p] = <<Puzzle[p]>>
       /\ (dpos <= Len(Puzzle) /\ Puzzle[dpos] \in Slots) => vs <= 80
       /\ dpos > Len(Puzzle) => vs = 81

\* the whole template has been walked: the first line reads 715|894|632
C8_Witness ==
    /\ pc = "sud_done"
    /\ vs = 81
    /\ Len(dout) = Len(Puzzle)
    /\ SubSeq(dout, 1, 12) =
          << <<"7">>, <<"1">>, <<"5">>, <<"|">>, <<"8">>, <<"9">>, <<"4">>, <<"|">>,
             <<"6">>, <<"3">>, <<"2">>, <<"\n">> >>

\* The cells of each constraint of a family, and what makes a family a
\* partition of the 81 cells into 9 groups of 9 distinct cells.
Partitions(family) ==
    /\ Len(family) = 9
    /\ \A n \in 1..9 :
          /\ family[n].kind = "distinct"
          /\ Len(family[n].vars) = 9
          /\ Cardinality(Range1(family[n].vars)) = 9
    /\ UNION {Range1(family[n].vars) : n \in 1..9} = 0..80
    /\ \A m, n \in 1..9 :
          m # n => Range1(family[m].vars) \cap Range1(family[n].vars) = {}

\* The part of C9 that does not depend on the state: with flat index 9*row + col, cell(R,C,r,c) is an index in 0..80 whose
\* row lies in 3R..3R+2 and whose column lies in 3C..3C+2; the 9 blocks, the 9
\* row slices and the 9 column slices each hold 9 distinct cells and each
\* family partitions the 81 cells; rows group by row, columns by column, blocks
\* by block; and the solver holds exactly these 27 Distinct constraints.
C9_Static ==
    /\ \A R, C, r, c \in 0..2 :
          LET k == cell(R, C, r, c)
          IN  /\ k \in 0..80
              /\ RowOf(k) \in (3 * R)..(3 * R + 2)
              /\ ColOf(k) \in (3 * C)..(3 * C + 2)
    /\ Partitions(rows) /\ Partitions(cols) /\ Partitions(blocks)
    /\ \A n \in 1..9 :
          /\ \A j, k \in Range1(rows[n].vars) : RowOf(j) = RowOf(k)
          /\ \A j, k \in Range1(cols[n].vars) : ColOf(j) = ColOf(k)
          /\ \A j, k \in Range1(blocks[n].vars) : BlockOf(j) = BlockOf(k)

\* C9 (as stated above C9_Static): the index transform, the three partitions of
\* the 81 cells, and exactly these 27 Distinct constraints held by the solver.
C9_Grouping ==
    /\ C9_Static
    /\ pc # "sud_start" =>
          /\ SubSeq(asserted, 1, 27) = sudoku_rules
          /\ Cardinality({n \in DOMAIN asserted : asserted[n].kind = "distinct"}) = 27

\* s.add(sudoku_rules) and s.add(in_range(...)) have run
C9_Witness ==
    /\ pc = "sud_clues"
    /\ i = 0
    /\ Len(asserted) = 27 + 81
    /\ asserted[19].vars = <<0, 1, 2, 9, 10, 11, 18, 19, 20>>

(***************************************************************************)
(* The verdict of check()                                                  *)
(*                                                                         *)
(* What check() answers is the library's decision.  Beside the answer sat  *)
(* that the search above reaches, the solver may answer unsat or unknown;  *)
(* the code of the cell after check() is the same whatever the answer.     *)
(***************************************************************************)
\* s.check() returns unsat or unknown: no model is available
CheckNotSat ==
    /\ pc \in {"cry_check", "sud_check"}
    /\ verdict = "none"
    /\ \E v \in {"unsat", "unknown"} : verdict' = v
    /\ assign' = Empty
    /\ pc' = IF pc = "cry_check" THEN "cry_model" ELSE "sud_model"
    /\ UNCHANGED <<kinVars, asserted, camount, sudVars, knapVars, nbVars>>

InitVerdict == InitCrypt \/ InitSudoku

NextVerdict == NextCrypt \/ NextSudoku \/ CheckNotSat

SpecVerdict == InitVerdict /\ [][NextVerdict]_vars

Scale == 2

\* u, v, s, a, t = Reals('u v s a t')
KinVars == {"u", "v", "s", "a", "t"}

\* v == u + a * t
Rule1Squares(m) == m.v * m.v = m.u * m.u + 2 * m.a * m.s
Rule1Minus(m) == Scale * m.v = Scale * m.u - m.a * m.t
Rule1(m) == Scale * m.v = Scale * m.u + m.a * m.t

\* s == u * t + a * t * t / 2
Rule2(m) == 2 * Scale * Scale * m.s = 2 * Scale * m.u * m.t + m.a * m.t * m.t

rules(m) == Rule1(m) /\ Rule2(m)

\* solve(u == 10, a == 1, v == 20, *rules): the three equalities
NotebookBinding == [u |-> 10 * Scale, a |-> 1 * Scale, v |-> 20 * Scale]

\* The values a candidate model gives t and s, in steps of 1/Scale.
KinMaxT == 12
KinMaxS == 160

InitKinematics ==
    /\ pc = "kin_posed"
    /\ kbind = NotebookBinding
    /\ \E t \in (0 - KinMaxT * Scale)..(KinMaxT * Scale),
          s \in (0 - KinMaxS * Scale)..(KinMaxS * Scale) :
          kmodel = [u |-> kbind.u, a |-> kbind.a, v |-> kbind.v, t |-> t, s |-> s]
    /\ IdleSol /\ IdleCry /\ IdleSud /\ IdleKnap /\ IdleNb

\* solve(...) prints the candidate: it is a model of the rules
KinPrint ==
    /\ pc = "kin_posed"
    /\ kbind = NotebookBinding
    /\ rules(kmodel)
    /\ pc' = "kin_printed"
    /\ UNCHANGED <<kinVars, solVars, camount, sudVars, knapVars, nbVars>>

\* solve(...) passes the candidate over: it breaks a rule
KinPass ==
    /\ pc = "kin_posed"
    /\ kbind = NotebookBinding
    /\ ~rules(kmodel)
    /\ pc' = "kin_passed"
    /\ UNCHANGED <<kinVars, solVars, camount, sudVars, knapVars, nbVars>>

NextKinematics == KinPrint \/ KinPass

SpecKinematics == InitKinematics /\ [][NextKinematics]_vars

\* C4: under v = u + a*t and s = u*t + a*t*t/2 with u = 10, a = 1, v = 20 the
\* only consistent values of the other two variables are t = 10 and s = 150.
C4_KinematicsAnswer ==
    pc = "kin_printed" =>
       /\ kmodel.u = 10 * Scale /\ kmodel.a = 1 * Scale /\ kmodel.v = 20 * Scale
       /\ kmodel.t = 10 * Scale
       /\ kmodel.s = 150 * Scale

\* the notebook's output, [s = 150, t = 10, v = 20, a = 1, u = 10]
C4_Witness ==
    /\ pc = "kin_printed"
    /\ kmodel = [s |-> 150 * Scale, t |-> 10 * Scale, v |-> 20 * Scale,
                 a |-> 1 * Scale, u |-> 10 * Scale]

\* Any three of the five variables bound to integers of magnitude at most
\* KinMaxVal; the other two range over the grid that holds every value the
\* rules can then give them when they are polynomials of the bound ones.
KinMaxVal == 1
KinGridMax == KinMaxVal * KinMaxVal + 2 * KinMaxVal * KinMaxVal * KinMaxVal
KinGrid == (0 - KinGridMax * Scale)..(KinGridMax * Scale)
KinBoundValues == {Scale * n : n \in (0 - KinMaxVal)..KinMaxVal}
KinTriples == {T \in SUBSET KinVars : Cardinality(T) = 3}

\* The assignments of all five variables that agree with the binding b.
Candidates(b) ==
    {[x \in KinVars |-> IF x \in DOMAIN b THEN b[x] ELSE f[x]] :
        f \in [KinVars \ DOMAIN b -> KinGrid]}

\* The models solve(b..., *rules) can print.
Models(b) == {m \in Candidates(b) : rules(m)}

InitKinAny ==
    /\ pc = "kin_posed"
    /\ \E T \in KinTriples : kbind \in [T -> KinBoundValues]
    /\ kmodel = Empty
    /\ IdleSol /\ IdleCry /\ IdleSud /\ IdleKnap /\ IdleNb

\* solve(...) prints a model
KinSolve ==
    /\ pc = "kin_posed"
    /\ kmodel = Empty
    /\ \E m \in Models(kbind) : kmodel' = m
    /\ pc' = "kin_printed"
    /\ UNCHANGED <<kbind, solVars, camount, sudVars, knapVars, nbVars>>

\* no assignment on the grid is a model: solve(...) prints "no solution", or
\* a model that lies off the grid
KinNoneOnGrid ==
    /\ pc = "kin_posed"
    /\ kmodel = Empty
    /\ Models(kbind) = {}
    /\ pc' = "kin_off_grid"
    /\ UNCHANGED <<kinVars, solVars, camount, sudVars, knapVars, nbVars>>

NextKinAny == KinSolve \/ KinNoneOnGrid

SpecKinAny == InitKinAny /\ [][NextKinAny]_vars

Polynomial == {{"u", "a", "t"}, {"v", "a", "t"}}

Stmt(reads, writes) == [reads |-> reads, writes |-> writes]

CryDigits == {"S", "E", "N", "D", "M", "O", "R", "Y"}

\* from z3 import *: the names of it the cells use
Z3Names == {"Reals", "solve", "Ints", "And", "Solver", "Distinct", "Int", "Bool",
            "Optimize"}

\* the Uniform Acceleration cell
KinCell == <<
    Stmt({"Reals"}, {"u", "v", "s", "a", "t"}),
    Stmt({"v", "u", "a", "t", "s"}, {"rules"}),
    Stmt({"solve", "u", "a", "v", "rules"}, {}) >>

\* the Cryptarithms cell
CryCellNoInRange == <<
    Stmt({"Ints"}, CryDigits),
    Stmt({"Solver"}, {"s"}),
    Stmt({"s"} \cup CryDigits, {}),
    Stmt({"s", "Distinct"} \cup CryDigits, {}),
    Stmt({"s", "in_range", "And"} \cup CryDigits, {}),
    Stmt({"s", "in_range", "And", "S", "M"}, {}),
    Stmt({}, {"amount"}),
    Stmt({"s"}, {}),
    Stmt({"amount", "s", "M", "O", "N", "E", "Y"}, {}) >>
CryCell == <<
    Stmt({"Ints"}, CryDigits),
    Stmt({}, {"in_range"}),
    Stmt({"Solver"}, {"s"}),
    Stmt({"s"} \cup CryDigits, {}),
    Stmt({"s", "Distinct"} \cup CryDigits, {}),
    Stmt({"s", "in_range", "And"} \cup CryDigits, {}),
    Stmt({"s", "in_range", "And", "S", "M"}, {}),
    Stmt({}, {"amount"}),
    Stmt({"s"}, {}),
    Stmt({"amount", "s", "M", "O", "N", "E", "Y"}, {}) >>

\* the first Sudoku cell: from itertools import *; sq3x3 = ...; sq3x3
SqCell == <<
    Stmt({}, {"product", "count"}),
    Stmt({"product"}, {"sq3x3"}),
    Stmt({"sq3x3"}, {}) >>

\* the second Sudoku cell
SudCell == <<
    Stmt({}, {"puzzle"}),
    Stmt({"Int"}, {"cells"}),
    Stmt({}, {"display"}),
    Stmt({}, {"cell"}),
    Stmt({"Distinct", "cells"}, {"rows"}),
    Stmt({"Distinct", "cells"}, {"cols"}),
    Stmt({"Distinct", "cell", "cells", "sq3x3"}, {"blocks"}),
    Stmt({"rows", "cols", "blocks"}, {"sudoku_rules"}),
    Stmt({"Solver"}, {"s"}),
    Stmt({"s", "sudoku_rules"}, {}),
    Stmt({"s", "in_range", "And", "cells"}, {}),
    Stmt({"puzzle"}, {"start_cells"}),
    Stmt({"start_cells", "s", "cells"}, {"i", "c"}),
    Stmt({"s", "cells"}, {}),
    Stmt({"s"}, {}),
    Stmt({"display", "s", "count", "puzzle", "cells"}, {}) >>

\* the Knapsack cell
KnapCell == <<
    Stmt({}, {"values"}),
    Stmt({}, {"weights"}),
    Stmt({}, {"capacity"}),
    Stmt({"Bool", "values"}, {"selections"}),
    Stmt({"Optimize"}, {"knapsack"}),
    Stmt({"knapsack", "selections", "weights", "capacity"}, {}),
    Stmt({"knapsack", "selections", "values"}, {"objective"}),
    Stmt({"knapsack", "objective"}, {}) >>

CellNames == {"kin", "cry", "sq", "sud", "knap"}

Statements(c) ==
    CASE c = "kin"  -> KinCell
      [] c = "cry"  -> CryCell
      [] c = "sq"   -> SqCell
      [] c = "sud"  -> SudCell
      [] c = "knap" -> KnapCell

\* The problem a cell belongs to; the import belongs to every problem.
ProblemOf(c) ==
    CASE c = "kin"  -> "kinematics"
      [] c = "cry"  -> "cryptarithm"
      [] c \in {"sq", "sud"} -> "sudoku"
      [] c = "knap" -> "knapsack"
      [] c = "z3"   -> "import"

RECURSIVE Exec(_, _, _, _)
\* Statements n.. of cell c run in namespace r.ns; r.foreign collects the reads
\* of a name that a cell of another problem bound.
Exec(c, stmts, n, r) ==
    IF n > Len(stmts) THEN r
    ELSE LET st      == stmts[n]
             unbound == st.reads \ DOMAIN r.ns
         IN  IF unbound # {}
             THEN [r EXCEPT !.err = CHOOSE x \in unbound : TRUE]
             ELSE Exec(c, stmts, n + 1,
                    [ns |-> [x \in st.writes |-> c] @@ r.ns,
                     err |-> "ok",
                     foreign |-> r.foreign \cup
                        {<<c, x, r.ns[x]>> : x \in
                            {y \in st.reads :
                                ProblemOf(r.ns[y]) \notin {"import", ProblemOf(c)}}}])

\* the namespace right after from z3 import *
InitNotebook ==
    /\ pc = "idle"
    /\ ns = [x \in Z3Names |-> "z3"]
    /\ ran = {} /\ last = "none" /\ err = "ok" /\ foreign = {}
    /\ IdleKin /\ IdleSol /\ IdleCry /\ IdleSud /\ IdleKnap

RunCell(c) ==
    /\ pc = "idle"
    /\ LET r == Exec(c, Statements(c), 1, [ns |-> ns, err |-> "ok", foreign |-> foreign])
       IN  /\ ns' = r.ns
           /\ err' = r.err
           /\ foreign' = r.foreign
           /\ ran' = IF r.err = "ok" THEN ran \cup {c} ELSE ran
    /\ last' = c
    /\ UNCHANGED <<pc, kinVars, solVars, camount, sudVars, knapVars>>

RunKin  == RunCell("kin")
RunCry  == RunCell("cry")
RunSq   == RunCell("sq")
RunSud  == RunCell("sud")
RunKnap == RunCell("knap")

NextNotebook == RunKin \/ RunCry \/ RunSq \/ RunSud \/ RunKnap

SpecNotebook == InitNotebook /\ [][NextNotebook]_vars

\* C6 as claimed: from a namespace that holds only the z3 import, every cell
\* runs without an error in whatever order the problems are executed, and no
\* cell reads a name that a cell of another problem bound.
C6_ProblemsShareNothing ==
    /\ err = "ok" \/ (last = "sud" /\ "sq" \notin ran /\ err = "sq3x3")
    /\ foreign = {}

\* C6 amended: the kinematics, cryptarithm and knapsack cells, and the first
\* Sudoku cell, run without an error from a namespace that holds only the z3
\* import, in any order.  The second Sudoku cell reads in_range, which only the
\* cryptarithm cell defines: it raises NameError for in_range exactly when its
\* own first cell has run and the cryptarithm cell has not, and runs without
\* an error once both have; in_range is the only name a cell reads that a cell
\* of another problem bound.
C6_OnlySudokuNeedsCryptarithm ==
    /\ last \in {"kin", "cry", "sq", "knap"} => err = "ok"
    /\ last = "sud" =>
          err = IF "sq" \notin ran THEN "sq3x3"
                ELSE IF "cry" \notin ran THEN "in_range"
                ELSE "ok"
    /\ foreign \subseteq {<<"sud", "in_range", "cry">>}
    /\ "sud" \in ran => <<"sud", "in_range", "cry">> \in foreign

\* every cell has run, the Sudoku cell last and with the cryptarithm's in_range
C6_Witness ==
    /\ ran = CellNames
    /\ last = "sud"
    /\ err = "ok"
    /\ ns["in_range"] = "cry"
    /\ ns["s"] = "sud"

====
